---- MODULE Spec2Model ----
(***************************************************************************)
(* echo-openapi: the validation pipeline of the OpenAPI middleware          *)
(* (OpenAPIWithConfig, convertError, check, JSONValidationError) and of     *)
(* the response-validating Handler (Handler.validate).                      *)
(*                                                                         *)
(* src/ holds two generations of the two program files.  The model follows *)
(* the current one, the one the tests in src/openapi_test.go exercise      *)
(* (OpenAPIFromBytes, panics at construction, the "body" bucket):          *)
(*   middleware  src/handler_test.go lines 144-396                         *)
(*   handler     src/handler.go      lines 122-283                         *)
(* The earlier generation (src/openapi.go, src/handler.go lines 1-120) is  *)
(* used only as the pattern of some mutants.                               *)
(*                                                                         *)
(* Text is a sequence of pieces; the text denoted is the concatenation of  *)
(* the pieces.  Names that end up in map keys are spelled one character    *)
(* per piece, so that sort.Strings can be computed on them; the double     *)
(* quote and the line feed are always pieces of their own.                 *)
(***************************************************************************)
EXTENDS Integers, Sequences, FiniteSets, TLC

VARIABLES
    mw,        \* the middleware: "new", "panicked" or "serving"
    config,    \* the Config given to / captured by OpenAPIWithConfig
    router,    \* the route matcher captured by the closure (operations)
    loads,     \* how many times a schema document was loaded
    pc,        \* stage of the pipeline for the request in flight
    req,       \* the request in flight
    store,     \* echo.Context key/value store of the request (c.Set/c.Get)
    rawErr,    \* what openapi3filter.ValidateRequest returned
    call,      \* what the downstream handler did (its Validate call)
    resp,      \* echo.Response of the request
    ret,       \* the error value returned up to echo
    trace,     \* which collaborators were invoked for this request
    ctxs,      \* the echo.Contexts of the server's pool, one per request in flight
    storage,   \* the key/value stores of those contexts, by storage location
    serial,    \* how many requests the server has accepted
    conv       \* one call of convertError: its argument and what it returned

\* the state one request at a time goes through
seq == <<pc, req, store, rawErr, call, resp, ret, trace>>

\* the state of the requests served side by side
conc == <<ctxs, storage, serial>>

vars == <<mw, config, router, loads, pc, req, store, rawErr, call, resp, ret, trace,
          ctxs, storage, serial, conv>>

(***************************************************************************)
(* Bounds                                                                  *)
(***************************************************************************)
\* longest list of schema errors the validator reports for one body
MaxBodyErrs == 2

\* contexts the server's pool hands out: requests in flight at the same time
MaxInFlight == 2

\* requests the server accepts while requests are served side by side
MaxServed == 3

\* longest list of raw errors handed to convertError on its own
MaxRawErrs == 2

(***************************************************************************)
(* Text                                                                    *)
(***************************************************************************)
QUOTE == "\""
LF == "\n"

\* the characters of the keys, in byte order
CharOrder == <<QUOTE, "-", ".", "a", "b", "d", "e", "h", "i", "k", "l", "m", "n",
               "o", "p", "q", "r", "s", "t", "u", "w", "x", "y">>

CharCode(ch) == CHOOSE i \in DOMAIN CharOrder : CharOrder[i] = ch

\* Go's < on strings: bytewise lexicographic
RECURSIVE StringLess(_, _)
StringLess(a, b) ==
    IF b = <<>> THEN FALSE
    ELSE IF a = <<>> THEN TRUE
    ELSE IF Head(a) = Head(b) THEN StringLess(Tail(a), Tail(b))
    ELSE CharCode(Head(a)) < CharCode(Head(b))

\* strings.Join(elems, sep)
RECURSIVE Join(_, _)
Join(elems, sep) ==
    IF elems = <<>> THEN <<>>
    ELSE IF Len(elems) = 1 THEN elems[1]
    ELSE elems[1] \o sep \o Join(Tail(elems), sep)

\* strings.ReplaceAll(s, "\"", "'")
ReplaceAllQuotes(s) == [i \in DOMAIN s |-> IF s[i] = QUOTE THEN "'" ELSE s[i]]

\* strings.Split(s, "\n")[0]
RECURSIVE FirstLine(_)
FirstLine(s) ==
    IF s = <<>> THEN <<>>
    ELSE IF Head(s) = LF THEN <<>>
    ELSE <<Head(s)>> \o FirstLine(Tail(s))

\* strings.HasPrefix(s, prefix)
HasPrefix(s, prefix) ==
    /\ Len(s) >= Len(prefix)
    /\ SubSeq(s, 1, Len(prefix)) = prefix

\* sort.Strings over the keys of a map: the keys in increasing order
RECURSIVE SortStrings(_)
SortStrings(keys) ==
    IF keys = {} THEN <<>>
    ELSE LET least == CHOOSE k \in keys : \A o \in keys \ {k} : StringLess(k, o)
         IN <<least>> \o SortStrings(keys \ {least})

\* names used as map keys or inside them
kBody == <<"b", "o", "d", "y">>
kUnknown == <<"u", "n", "k", "n", "o", "w", "n">>
nUsername == <<"u", "s", "e", "r", "n", "a", "m", "e">>
nLimit == <<"l", "i", "m", "i", "t">>
inPath == <<"p", "a", "t", "h">>
inQuery == <<"q", "u", "e", "r", "y">>

ApplicationJSON == <<"application/json">>
MIMETextPlain == <<"text/plain">>
MIMEApplicationJSONCharsetUTF8 == <<"application/json", "; charset=UTF-8">>

(***************************************************************************)
(* The OpenAPI documents the loader can be pointed at                      *)
(***************************************************************************)
Methods == {"GET", "POST"}

NoRoute == [path |-> <<"-">>, method |-> "-", params |-> <<>>,
            hasBody |-> FALSE, bodyRequired |-> FALSE,
            responses |-> <<>>]

pUsername == [in |-> inPath, name |-> nUsername]
pLimit == [in |-> inQuery, name |-> nLimit]

\* The operations of the document under test: src/fixtures/openapi.yaml cut
\* to "/", "/validation" and "/validation/{username}"; the last one is also
\* given the required request body of "/validation", so that parameter and
\* body failures can meet in one request.
\* responses: status -> content types that carry a schema
Operations ==
    { [path |-> <<>>, method |-> "GET", params |-> <<>>,
       hasBody |-> FALSE, bodyRequired |-> FALSE,
       responses |-> (200 :> {ApplicationJSON})],
      [path |-> <<"validation">>, method |-> "POST", params |-> <<>>,
       hasBody |-> TRUE, bodyRequired |-> TRUE,
       responses |-> (200 :> {ApplicationJSON})],
      [path |-> <<"validation", "{username}">>, method |-> "POST",
       params |-> <<pUsername, pLimit>>,
       hasBody |-> TRUE, bodyRequired |-> TRUE,
       responses |-> (200 :> {})] }

\* what a schema source holds: a document that parses or not, passes
\* OpenAPI validation or not, and from which a router can be built or not
Content(kind) ==
    [parses |-> kind # "unparsable",
     valid |-> kind # "invalid",
     routable |-> kind # "unroutable",
     ops |-> Operations]

\* the files on disk: name -> what the file holds ("missing": no such file)
FileKind(path) ==
    CASE path = "./fixtures/openapi.yaml" -> "good"
      [] path = "./fixtures/invalid.yaml" -> "invalid"
      [] OTHER -> "missing"

\* openapi3.Loader.LoadFromFile
LoadFromFile(path) ==
    IF FileKind(path) = "missing" \/ ~Content(FileKind(path)).parses
    THEN [err |-> TRUE, doc |-> Content("unparsable")]
    ELSE [err |-> FALSE, doc |-> Content(FileKind(path))]

\* openapi3.Loader.LoadFromData; the bytes are one chunk naming what they hold
LoadFromData(bytes) ==
    IF ~Content(bytes[1]).parses
    THEN [err |-> TRUE, doc |-> Content("unparsable")]
    ELSE [err |-> FALSE, doc |-> Content(bytes[1])]

\* openapi3.T.Validate: the error it returns, if any
SchemaValidate(doc) == ~doc.valid

\* gorillamux.NewRouter
NewRouter(doc) ==
    IF doc.routable THEN [err |-> FALSE, router |-> doc.ops]
    ELSE [err |-> TRUE, router |-> {}]

(***************************************************************************)
(* Config, DefaultConfig, OpenAPI, OpenAPIFromBytes, OpenAPIWithConfig     *)
(***************************************************************************)
NoExempt == <<>>
ExemptTables ==
    { NoExempt,
      ("/validation" :> <<"POST">>) @@ ("/" :> <<"POST">>) }

DefaultConfig ==
    [Skipper |-> "DefaultSkipper", Schema |-> "", SchemaBytes |-> <<>>,
     ContextKey |-> "validator", ExemptRoutes |-> NoExempt]

SchemaFiles == {"", "./fixtures/openapi.yaml", "./fixtures/invalid.yaml", "/invalid/path"}
SchemaByteBuffers == {<<>>, <<"good">>, <<"unparsable">>, <<"unroutable">>}

\* the configurations a caller can pass; bytes are given alone or beside a
\* file that would not do
Configs ==
    { c \in [Skipper : {"nil", "custom"},
             Schema : SchemaFiles,
             SchemaBytes : SchemaByteBuffers,
             ContextKey : {"", "other"},
             ExemptRoutes : ExemptTables] :
        Len(c.SchemaBytes) > 0 => c.Schema \in {"", "./fixtures/invalid.yaml"} }

\* OpenAPIWithConfig without the schema.Validate step
OpenAPIWithConfigUnvalidated(cfg) ==
    LET c1 == IF cfg.Skipper = "nil"
              THEN [cfg EXCEPT !.Skipper = DefaultConfig.Skipper] ELSE cfg
        c2 == IF c1.ContextKey = ""
              THEN [c1 EXCEPT !.ContextKey = DefaultConfig.ContextKey] ELSE c1
        loaded == IF Len(cfg.SchemaBytes) > 0
                  THEN LoadFromData(cfg.SchemaBytes)
                  ELSE LoadFromFile(cfg.Schema)
        built == NewRouter(loaded.doc)
    IN  IF cfg.Schema = "" /\ Len(cfg.SchemaBytes) = 0
        THEN [panic |-> "either schema or schemaBytes is required",
              config |-> c1, router |-> {}, loads |-> 0]
        ELSE IF loaded.err
        THEN [panic |-> "failed loading schema file",
              config |-> c2, router |-> {}, loads |-> 1]
        ELSE IF built.err
        THEN [panic |-> "failed creating router",
              config |-> c2, router |-> {}, loads |-> 1]
        ELSE [panic |-> "", config |-> c2, router |-> built.router, loads |-> 1]

\* the part of OpenAPIWithConfig that runs once, before the closure is
\* returned: defaults, then load, validate, build the router, or panic
OpenAPIWithConfig(cfg) ==
    LET c1 == IF cfg.Skipper = "nil"
              THEN [cfg EXCEPT !.Skipper = DefaultConfig.Skipper] ELSE cfg
        c2 == IF c1.ContextKey = ""
              THEN [c1 EXCEPT !.ContextKey = DefaultConfig.ContextKey] ELSE c1
        loaded == IF Len(cfg.SchemaBytes) > 0
                  THEN LoadFromData(cfg.SchemaBytes)
                  ELSE LoadFromFile(cfg.Schema)
        built == NewRouter(loaded.doc)
    IN  IF cfg.Schema = "" /\ Len(cfg.SchemaBytes) = 0
        THEN [panic |-> "either schema or schemaBytes is required",
              config |-> c1, router |-> {}, loads |-> 0]
        ELSE IF loaded.err
        THEN [panic |-> "failed loading schema file",
              config |-> c2, router |-> {}, loads |-> 1]
        ELSE IF SchemaValidate(loaded.doc)
        THEN [panic |-> "failed validating schema",
              config |-> c2, router |-> {}, loads |-> 1]
        ELSE IF built.err
        THEN [panic |-> "failed creating router",
              config |-> c2, router |-> {}, loads |-> 1]
        ELSE [panic |-> "", config |-> c2, router |-> built.router, loads |-> 1]

\* OpenAPI(file)
OpenAPI(file) == OpenAPIWithConfig([DefaultConfig EXCEPT !.Schema = file])

\* OpenAPIFromBytes(schemaBytes)
OpenAPIFromBytes(schemaBytes) ==
    OpenAPIWithConfig([DefaultConfig EXCEPT !.SchemaBytes = schemaBytes])

\* the ways a caller builds the middleware
Constructions ==
    { OpenAPIWithConfig(cfg) : cfg \in Configs }
    \union { OpenAPI(file) : file \in SchemaFiles }
    \union { OpenAPIFromBytes(bytes) : bytes \in SchemaByteBuffers }

\* what each request of the closure does to the schema: nothing, the
\* document and the router were captured at construction
LoadsPerRequest(cfg) == 0

(***************************************************************************)
(* Requests, and what the external validator finds in them                 *)
(***************************************************************************)
\* openapi3.SchemaError: JSONPointer() and Reason
SchemaError(pointer, reason) ==
    [type |-> "SchemaError", pointer |-> pointer, reason |-> reason]

\* the schema errors a JSON body can raise against the request schema: at the
\* root, at a property, at a property of a nested object, and at a property
\* whose name holds a double quote
BodySchemaErrors ==
    { SchemaError(<<>>, <<"property ", QUOTE, "invalid", QUOTE, " is unsupported">>),
      SchemaError(<<>>, <<"property ", QUOTE, "extra", QUOTE, " is unsupported">>),
      SchemaError(<<nUsername>>, <<"value must be a string">>),
      SchemaError(<<kBody>>, <<"value must be a string">>),
      SchemaError(<<<<"a">>, <<"b">>>>,
                  <<"property ", QUOTE, "b", QUOTE, " is missing">>),
      SchemaError(<<<<"x", QUOTE, "y">>>>, <<"value must be a string">>) }

\* the validator reports each error once, in an order it does not promise
ErrSeqs(n) ==
    { s \in UNION { [1..k -> BodySchemaErrors] : k \in 0..n } :
        \A i, j \in DOMAIN s : i # j => s[i] # s[j] }

Bodies ==
    { [kind |-> "empty", errs |-> <<>>], [kind |-> "malformed", errs |-> <<>>] }
    \union { [kind |-> "json", errs |-> e] : e \in ErrSeqs(MaxBodyErrs) }

\* URL path and the path of the echo route that serves it (c.Path())
Targets ==
    { [url |-> <<>>, route |-> "/"],
      [url |-> <<"notfound">>, route |-> "/notfound"],
      [url |-> <<"validation">>, route |-> "/validation"],
      [url |-> <<"validation", "a">>, route |-> "/validation/:username"] }

NoRequest ==
    [method |-> "-", target |-> [url |-> <<"-">>, route |-> "-"], skip |-> FALSE,
     badParams |-> {}, body |-> [kind |-> "empty", errs |-> <<>>]]

\* skip: the verdict of a custom Skipper on this request
\* badParams: the parameters whose value breaks the constraint declared for it
\* A GET carries no body and no parameter values; parameter values are sent
\* only to the one path that declares parameters, bodies only to the paths
\* that declare one.
Requests ==
    { r \in [method : Methods, target : Targets, skip : BOOLEAN,
             badParams : SUBSET {pUsername, pLimit}, body : Bodies] :
        /\ r.badParams # {} =>
              r.method = "POST" /\ r.target.url = <<"validation", "a">>
        /\ r.body.kind # "empty" =>
              r.method = "POST" /\ Len(r.target.url) > 0
                               /\ r.target.url[1] = "validation" }

\* the text of the cause the validator attaches to a bad parameter
ParamCause(p) ==
    IF p = pUsername
    THEN <<"minimum string length is 2", LF, "Schema:", LF, "  {", QUOTE,
           "minLength", QUOTE, ": 2}", LF, "Value:", LF, "  ", QUOTE, "a", QUOTE>>
    ELSE <<"number must be at most 100", LF, "Schema:", LF, "  {", QUOTE,
           "maximum", QUOTE, ": 100}", LF, "Value:", LF, "  200">>

NoParameter == [in |-> <<>>, name |-> <<>>]
NilError == [type |-> "nil"]
PlainError(text) == [type |-> "error", text |-> text]
MultiError(errs) == [type |-> "MultiError", errs |-> errs]

\* openapi3filter.RequestError
RequestError(parameter, requestBody, reason, err) ==
    [type |-> "RequestError", parameter |-> parameter,
     requestBody |-> requestBody, reason |-> reason, err |-> err]

\* error.Error() of the causes
ErrorText(err) ==
    CASE err.type = "error" -> err.text
      [] err.type = "SchemaError" -> err.reason
      [] OTHER -> <<>>

\* openapi3filter.RequestError.Error()
RequestErrorText(err) ==
    LET cause == ErrorText(err.err)
        reason == IF err.err.type = "nil" THEN err.reason
                  ELSE IF err.reason = <<>> \/ err.reason = cause THEN cause
                  ELSE err.reason \o <<": ">> \o cause
    IN  IF err.parameter # NoParameter
        THEN <<"parameter ", QUOTE>> \o err.parameter.name \o <<QUOTE, " in ">>
             \o err.parameter.in \o <<" has an error: ">> \o reason
        ELSE IF err.requestBody
        THEN <<"request body has an error: ">> \o reason
        ELSE reason

ErrInvalidRequired == PlainError(<<"value is required but missing">>)

\* openapi3filter.ValidateRequest with Options.MultiError: the parameters in
\* document order, then the request body; nil (the empty list) when all pass
RECURSIVE ValidateParameters(_, _)
ValidateParameters(params, r) ==
    IF params = <<>> THEN <<>>
    ELSE (IF Head(params) \in r.badParams
          THEN <<RequestError(Head(params), FALSE, <<>>,
                              PlainError(ParamCause(Head(params))))>>
          ELSE <<>>) \o ValidateParameters(Tail(params), r)

ValidateRequestBody(op, r) ==
    IF ~op.hasBody THEN <<>>
    ELSE IF r.body.kind = "empty"
    THEN IF op.bodyRequired
         THEN <<RequestError(NoParameter, TRUE, <<>>, ErrInvalidRequired)>>
         ELSE <<>>
    ELSE IF r.body.kind = "malformed"
    THEN <<RequestError(NoParameter, TRUE, <<"failed to decode request body">>,
                        PlainError(<<"invalid character">>))>>
    ELSE IF r.body.errs = <<>> THEN <<>>
    ELSE <<RequestError(NoParameter, TRUE, <<"doesn't match schema">>,
                        MultiError(r.body.errs))>>

ValidateRequest(op, r) ==
    ValidateParameters(op.params, r) \o ValidateRequestBody(op, r)

(***************************************************************************)
(* Route resolution                                                        *)
(***************************************************************************)
PathParams == {"{username}"}

\* a path template matches a URL path
Match(template, url) ==
    /\ Len(template) = Len(url)
    /\ \A i \in DOMAIN template :
        template[i] \in PathParams \/ template[i] = url[i]

\* routers.Router.FindRoute
FindRoute(rt, r) ==
    LET onPath == {op \in rt : Match(op.path, r.target.url)}
        forMethod == {op \in onPath : op.method = r.method}
    IN  IF onPath = {} THEN [err |-> "ErrPathNotFound", route |-> NoRoute]
        ELSE IF forMethod = {} THEN [err |-> "ErrMethodNotAllowed", route |-> NoRoute]
        ELSE [err |-> "", route |-> CHOOSE op \in forMethod : TRUE]

\* check that stops at the path and never looks at the methods
checkPathOnly(path, method, m) == \E k \in DOMAIN m : k = path

\* check(path, method, m)
check(path, method, m) ==
    \E k \in DOMAIN m :
        /\ k = path
        /\ \E i \in DOMAIN m[k] : method = m[k][i]

(***************************************************************************)
(* convertError and the flattening of its result                          *)
(***************************************************************************)
\* issues[k] = append(issues[k], msgs...)
AppendIssues(issues, k, msgs) ==
    [x \in DOMAIN issues \union {k} |->
        (IF x \in DOMAIN issues THEN issues[x] ELSE <<>>)
        \o (IF x = k THEN msgs ELSE <<>>)]

\* for k, v := range other { issues[k] = append(issues[k], v...) }
MergeIssues(issues, other) ==
    [x \in DOMAIN issues \union DOMAIN other |->
        (IF x \in DOMAIN issues THEN issues[x] ELSE <<>>)
        \o (IF x \in DOMAIN other THEN other[x] ELSE <<>>)]

\* case *openapi3.SchemaError: the key and the message
SchemaErrorField(err) ==
    IF Len(err.pointer) > 0 THEN Join(err.pointer, <<".">>) ELSE <<>>

\* the key of the earlier converter (src/openapi.go): one "schema" bucket
SchemaErrorKeyOneBucket(err) == <<"s", "c", "h", "e", "m", "a">>

SchemaErrorKey(err) == SchemaErrorField(err)

SchemaErrorMessage(err) ==
    LET field == SchemaErrorField(err)
    IN  ReplaceAllQuotes(IF Len(field) > 0
                         THEN field \o <<": ">> \o err.reason
                         ELSE err.reason)

\* the message of the earlier converter (src/openapi.go): the whole err.Error()
ParameterMessageWhole(err) == RequestErrorText(err)

\* case *openapi3filter.RequestError with a Parameter: the key and the message
ParameterKey(err) == err.parameter.in \o <<".">> \o err.parameter.name

ParameterMessage(err) ==
    <<"parameter '">> \o err.parameter.name \o <<"' in ">> \o err.parameter.in
    \o <<" has an error: ">> \o FirstLine(ErrorText(err.err))

RECURSIVE convertError(_)
convertError(me) ==
    IF me = <<>> THEN <<>>
    ELSE
      LET issues == convertError(SubSeq(me, 1, Len(me) - 1))
          err == me[Len(me)]
      IN  CASE err.type = "SchemaError" ->
                 AppendIssues(issues, SchemaErrorKey(err), <<SchemaErrorMessage(err)>>)
            [] err.type = "RequestError" ->
                 IF err.parameter # NoParameter
                 THEN AppendIssues(issues, ParameterKey(err), <<ParameterMessage(err)>>)
                 ELSE IF err.err.type = "MultiError"
                 THEN MergeIssues(issues, convertError(err.err.errs))
                 ELSE IF err.requestBody
                 THEN AppendIssues(issues, kBody, <<RequestErrorText(err)>>)
                 ELSE issues
            [] OTHER ->
                 AppendIssues(issues, kUnknown, <<ErrorText(err)>>)

\* the messages of the keys, in the order of names
RECURSIVE Concat(_, _)
Concat(issues, names) ==
    IF names = <<>> THEN <<>>
    ELSE issues[Head(names)] \o Concat(issues, Tail(names))

\* names sorted, then the messages of each name appended in turn
SortedNames(issues) == SortStrings(DOMAIN issues)

FlatErrors(issues) == Concat(issues, SortedNames(issues))

(***************************************************************************)
(* The response writer and the error values                                *)
(***************************************************************************)
NoPayload == [type |-> "none", fit |-> "ok"]
NoBody == [kind |-> "none", message |-> <<>>, errors |-> <<>>, payload |-> NoPayload]
JSONBody(message, errors) ==
    [kind |-> "json", message |-> message, errors |-> errors, payload |-> NoPayload]
BlobBody(v) == [kind |-> "blob", message |-> <<>>, errors |-> <<>>, payload |-> v]

\* echo.Response of a fresh context
NewResponse ==
    [committed |-> FALSE, status |-> 200, contentType |-> <<>>,
     body |-> <<>>, writes |-> 0]

\* c.Response().Header().Add("Content-Type", v) as Header.Get reads it back,
\* and echo's writeContentType: the first value stays
AddContentType(r, v) ==
    IF r.contentType = <<>> THEN [r EXCEPT !.contentType = v] ELSE r

\* echo.Response.WriteHeader: a committed response keeps its status
WriteHeader(r, code) ==
    IF r.committed THEN r ELSE [r EXCEPT !.committed = TRUE, !.status = code]

\* c.JSON / c.Blob: content type, status line, then the body
WriteBody(r, code, contentType, body) ==
    LET r1 == WriteHeader(AddContentType(r, contentType), code)
    IN  [r1 EXCEPT !.body = Append(@, body), !.writes = @ + 1]

\* c.NoContent
NoContent(r, code) == [WriteHeader(r, code) EXCEPT !.writes = @ + 1]

NilRet == [kind |-> "nil", code |-> 0, message |-> <<>>]
NewHTTPError(code, message) == [kind |-> "HTTPError", code |-> code, message |-> message]
Errorf(message) == [kind |-> "error", code |-> 0, message |-> message]

\* JSONValidationError(c, status, msg, errors)
JSONValidationError(r, status, msg, errors) ==
    WriteBody(r, status, MIMEApplicationJSONCharsetUTF8, JSONBody(msg, errors))

StatusText(code) ==
    CASE code = 404 -> <<"Not Found">>
      [] code = 405 -> <<"Method Not Allowed">>
      [] OTHER -> <<"Internal Server Error">>

\* echo.DefaultHTTPErrorHandler, run by echo when the chain returns an error
DefaultHTTPErrorHandler(r, err) ==
    IF r.committed THEN r
    ELSE IF err.kind = "HTTPError"
    THEN WriteBody(r, err.code, MIMEApplicationJSONCharsetUTF8,
                   JSONBody(err.message, <<>>))
    ELSE WriteBody(r, 500, MIMEApplicationJSONCharsetUTF8,
                   JSONBody(StatusText(500), <<>>))

(***************************************************************************)
(* The middleware closure, stage by stage                                  *)
(***************************************************************************)
\* config.Skipper(c)
Skipper(cfg, r) == IF cfg.Skipper = "custom" THEN r.skip ELSE FALSE

\* ResolveRoute with ErrMethodNotAllowed left to the final "return err"
ResolveRouteNo405(rt, r) ==
    LET found == FindRoute(rt, r)
    IN  IF found.err = "ErrPathNotFound"
        THEN [ok |-> FALSE, route |-> NoRoute,
              ret |-> NewHTTPError(404, <<"Path not found">>)]
        ELSE IF found.err # ""
        THEN [ok |-> FALSE, route |-> NoRoute, ret |-> Errorf(<<found.err>>)]
        ELSE [ok |-> TRUE, route |-> found.route, ret |-> NilRet]

\* the outcome of the route resolution stage
ResolveRoute(rt, r) ==
    LET found == FindRoute(rt, r)
    IN  IF found.err = "ErrPathNotFound"
        THEN [ok |-> FALSE, route |-> NoRoute,
              ret |-> NewHTTPError(404, <<"Path not found">>)]
        ELSE IF found.err = "ErrMethodNotAllowed"
        THEN [ok |-> FALSE, route |-> NoRoute,
              ret |-> NewHTTPError(405, <<"Method not allowed">>)]
        ELSE IF found.err # ""
        THEN [ok |-> FALSE, route |-> NoRoute, ret |-> Errorf(<<found.err>>)]
        ELSE [ok |-> TRUE, route |-> found.route, ret |-> NilRet]

\* RejectRequest as the earlier middleware did it (src/openapi.go): every
\* MultiError is a 422, there is no "body" case
RejectRequestAlways422(r, me) ==
    JSONValidationError(r, 422, <<"Validation error">>, FlatErrors(convertError(me)))

\* RejectRequest that answers 400 with the messages of all keys
RejectRequestAllMessages(r, me) ==
    LET issues == convertError(me)
    IN  IF kBody \in DOMAIN issues
        THEN JSONValidationError(r, 400, <<"Request error">>, FlatErrors(issues))
        ELSE JSONValidationError(r, 422, <<"Validation error">>, FlatErrors(issues))

\* the answer to a request whose validation returned the MultiError me
RejectRequest(r, me) ==
    LET issues == convertError(me)
    IN  IF kBody \in DOMAIN issues
        THEN JSONValidationError(r, 400, <<"Request error">>, issues[kBody])
        ELSE JSONValidationError(r, 422, <<"Validation error">>, FlatErrors(issues))

\* *openapi3filter.RequestValidationInput
RequestValidationInput(r, route) ==
    [type |-> "RequestValidationInput", request |-> r, route |-> route]

\* c.Set with the default key written out instead of the configured one
ContextSetDefaultKey(st, key, value) ==
    [k \in DOMAIN st \union {DefaultConfig.ContextKey} |->
        IF k = DefaultConfig.ContextKey THEN value ELSE st[k]]

\* c.Set(key, value)
ContextSet(st, key, value) ==
    [k \in DOMAIN st \union {key} |-> IF k = key THEN value ELSE st[k]]

(***************************************************************************)
(* Handler, HandlerConfig, NewHandler, Handler.validate                    *)
(***************************************************************************)
StatusNoContent == 204

DefaultHandlerConfig ==
    [ContentType |-> ApplicationJSON, ValidatorKey |-> "validator",
     ExcludeRequestBody |-> FALSE, ExcludeResponseBody |-> FALSE,
     IncludeResponseStatus |-> TRUE]

\* NewHandlerWithConfig(config)
NewHandlerWithConfig(hc) ==
    LET c1 == IF hc.ContentType = <<>>
              THEN [hc EXCEPT !.ContentType = DefaultHandlerConfig.ContentType]
              ELSE hc
    IN  IF c1.ValidatorKey = ""
        THEN [c1 EXCEPT !.ValidatorKey = DefaultHandlerConfig.ValidatorKey]
        ELSE c1

\* NewHandler()
NewHandler == NewHandlerWithConfig(DefaultHandlerConfig)

\* the configurations a handler can be built from
HandlerConfigs ==
    [ContentType : {<<>>}, ValidatorKey : {"", "other"},
     ExcludeRequestBody : {FALSE}, ExcludeResponseBody : BOOLEAN,
     IncludeResponseStatus : BOOLEAN]

\* what a handler passes as v: its Go type, and how the encoded body fares
\* against a response schema ("fields": some properties violate it, "root":
\* the value as a whole is of the wrong type)
Payloads ==
    { [type |-> "map", fit |-> "ok"],
      [type |-> "map", fit |-> "fields"],
      [type |-> "slice", fit |-> "root"],
      [type |-> "string", fit |-> "ok"],
      [type |-> "bytes", fit |-> "ok"],
      [type |-> "chan", fit |-> "ok"] }

\* the status codes a handler answers with; 201 is declared by no operation
Codes == {200, 201, StatusNoContent}

\* openapi3filter.ResponseError
ResponseError(reason, err) ==
    [type |-> "ResponseError", reason |-> reason, err |-> err]

\* the schema errors of a response body whose properties violate the schema
ResponseFieldErrors ==
    <<SchemaError(<<nUsername>>, <<"minimum string length is 2">>),
      SchemaError(<<>>, <<"property ", QUOTE, "invalid", QUOTE, " is unsupported">>)>>

\* openapi3filter.ValidateResponse, by the outcomes the handler tells apart
ValidateResponse(input, status, contentType, v, options) ==
    LET responses == input.route.responses
    IN  IF status \notin DOMAIN responses
        THEN IF ~options.IncludeResponseStatus THEN NilError
             ELSE ResponseError(<<"status is not supported">>, NilError)
        ELSE IF options.ExcludeResponseBody \/ responses[status] = {} THEN NilError
        ELSE IF ~\E ct \in responses[status] : HasPrefix(contentType, ct)
        THEN ResponseError(<<"response header Content-Type has unexpected value">>,
                           NilError)
        ELSE IF v.fit = "fields"
        THEN ResponseError(<<"response body doesn't match schema">>,
                           MultiError(ResponseFieldErrors))
        ELSE IF v.fit = "root"
        THEN ResponseError(<<"response body doesn't match schema">>,
                           SchemaError(<<>>, <<"value must be an object">>))
        ELSE NilError

\* json.Marshal whose error is dropped
MarshalErrorIgnored(v) == FALSE

\* json.Marshal(v) fails
MarshalFails(v) == v.type = "chan"

\* the end of validate with a failed validation logged and swallowed
AfterValidateResponseSwallowed(h, r, code, v, err) ==
    IF err.type = "nil" \/ (err.type = "ResponseError" /\ err.err.type # "MultiError")
    THEN [resp |-> WriteBody(r, code, h.ContentType, BlobBody(v)), ret |-> NilRet]
    ELSE [resp |-> r, ret |-> NilRet]

\* the end of validate: what is done with ValidateResponse's verdict
AfterValidateResponse(h, r, code, v, err) ==
    IF err.type = "nil"
    THEN [resp |-> WriteBody(r, code, h.ContentType, BlobBody(v)), ret |-> NilRet]
    ELSE IF err.type = "ResponseError"
    THEN IF err.err.type = "MultiError"
         THEN [resp |-> r,
               ret |-> Errorf(<<"failed validating response: ">>
                              \o Join(FlatErrors(convertError(err.err.errs)), <<"; ">>))]
         ELSE [resp |-> WriteBody(r, code, h.ContentType, BlobBody(v)), ret |-> NilRet]
    ELSE [resp |-> r, ret |-> Errorf(<<"failed validating response: ">>)]

\* Handler.validate past the no-content check: the response, the error
\* returned, and whether ValidateResponse was called
validateContent(h, st, r, code, contentType, v) ==
    LET r1 == [r EXCEPT !.status = code]
        isJSON == HasPrefix(contentType, ApplicationJSON)
        r2 == AddContentType(r1, IF isJSON THEN contentType ELSE MIMETextPlain)
        options == [ExcludeRequestBody |-> h.ExcludeRequestBody,
                    ExcludeResponseBody |-> h.ExcludeResponseBody,
                    IncludeResponseStatus |-> h.IncludeResponseStatus,
                    MultiError |-> TRUE]
    IN  IF h.ValidatorKey \notin DOMAIN st
        THEN [resp |-> r1, ret |-> Errorf(<<"validator key is wrong type">>),
              validated |-> FALSE]
        ELSE IF ~isJSON /\ v.type \notin {"string", "bytes"}
        THEN [resp |-> r2, ret |-> Errorf(<<"type ", v.type, " not supported">>),
              validated |-> FALSE]
        ELSE IF isJSON /\ MarshalFails(v)
        THEN [resp |-> r2, ret |-> Errorf(<<"failed marshaling response: ">>),
              validated |-> FALSE]
        ELSE
          LET err == ValidateResponse(st[h.ValidatorKey], r2.status,
                                      r2.contentType, v, options)
              done == AfterValidateResponse(h, r2, code, v, err)
          IN  [resp |-> done.resp, ret |-> done.ret, validated |-> TRUE]

\* validate without the no-content short cut
validateWithoutShortCut(h, st, r, code, contentType, v) ==
    validateContent(h, st, r, code, contentType, v)

\* Handler.validate(c, code, contentType, v)
validate(h, st, r, code, contentType, v) ==
    IF code = StatusNoContent
    THEN [resp |-> NoContent(r, code), ret |-> NilRet, validated |-> FALSE]
    ELSE validateContent(h, st, r, code, contentType, v)

\* Handler.Validate(c, code, v)
Validate(h, st, r, code, v) == validate(h, st, r, code, h.ContentType, v)

\* Handler.ValidateWithContentType(c, code, contentType, v)
ValidateWithContentType(h, st, r, code, contentType, v) ==
    validate(h, st, r, code, contentType, v)

\* what the downstream handlers do: answer by themselves with c.JSON(200, "ok"),
\* or hand a response candidate to a Handler
\* ctor, hc: how the Handler was built, and from which configuration
NoCall ==
    [fn |-> "-", ctor |-> "-", hc |-> DefaultHandlerConfig,
     h |-> DefaultHandlerConfig, code |-> 0,
     contentType |-> <<>>, v |-> NoPayload]

\* the Handlers a program builds
Handlers ==
    { [ctor |-> "NewHandler", hc |-> DefaultHandlerConfig, h |-> NewHandler] }
    \union
    { [ctor |-> "NewHandlerWithConfig", hc |-> hc, h |-> NewHandlerWithConfig(hc)] :
        hc \in HandlerConfigs }

Calls ==
    { [fn |-> "JSON", ctor |-> "-", hc |-> DefaultHandlerConfig,
       h |-> DefaultHandlerConfig, code |-> 200,
       contentType |-> <<>>, v |-> [type |-> "string", fit |-> "ok"]] }
    \union
    { [fn |-> "Validate", ctor |-> b.ctor, hc |-> b.hc, h |-> b.h, code |-> code,
       contentType |-> <<>>, v |-> v] :
        b \in Handlers, code \in Codes,
        v \in {p \in Payloads : p.type \in {"map", "slice", "chan"}} }
    \union
    { [fn |-> "ValidateWithContentType", ctor |-> b.ctor, hc |-> b.hc, h |-> b.h,
       code |-> code, contentType |-> MIMETextPlain, v |-> v] :
        b \in Handlers, code \in Codes,
        v \in {p \in Payloads : p.type \in {"string", "bytes", "slice"}} }

\* next(c)
next(cl, st, r) ==
    CASE cl.fn = "JSON" ->
           [resp |-> WriteBody(r, cl.code, MIMEApplicationJSONCharsetUTF8, BlobBody(cl.v)),
            ret |-> NilRet, validated |-> FALSE]
      [] cl.fn = "Validate" -> Validate(cl.h, st, r, cl.code, cl.v)
      [] OTHER -> ValidateWithContentType(cl.h, st, r, cl.code, cl.contentType, cl.v)

(***************************************************************************)
(* The contexts of requests served side by side                            *)
(***************************************************************************)
\* echo hands every request a context of its own, taken from a pool
Contexts == 1..MaxInFlight

\* the keys the middleware and the handlers are configured with
Keys == {"validator", "other"}

\* a store that is one static map for all contexts
SlotStatic(c, key) == <<1, key>>

\* where c.Set(key, ...) and c.Get(key) keep a value: in the store of the
\* context c they are called on
Slot(c, key) == <<c, key>>

\* the key/value store c.Get reads when called on context c
StoreView(st, c) ==
    [k \in {x \in Keys : Slot(c, x) \in DOMAIN st} |-> st[Slot(c, k)]]

\* echo's Context.Reset, run when a context goes back to the pool
ContextReset(st, c) ==
    [x \in DOMAIN st \ {Slot(c, k) : k \in Keys} |-> st[x]]

\* input, ok := c.Get(h.Config.ValidatorKey).(*openapi3filter.RequestValidationInput)
NoInput == [type |-> "none"]
ContextGet(st, key) == IF key \in DOMAIN st THEN st[key] ELSE NoInput

\* the requests served side by side: the id tells one request from another
\* of the same content
ConcRequests(id) ==
    { [id |-> id] @@ r : r \in { q \in Requests :
        /\ ~q.skip /\ q.badParams = {} /\ q.body.kind = "empty"
        /\ q.target.route \in {"/", "/validation"} } }

\* their handlers hand a good JSON object to Validate
ConcCalls ==
    { cl \in Calls :
        /\ cl.fn = "Validate" /\ cl.code = 200 /\ cl.ctor = "NewHandlerWithConfig"
        /\ cl.v = [type |-> "map", fit |-> "ok"]
        /\ cl.h.IncludeResponseStatus /\ ~cl.h.ExcludeResponseBody }

IdleContext ==
    [pc |-> "Start", req |-> [id |-> 0] @@ NoRequest, call |-> NoCall,
     resp |-> NewResponse, ret |-> NilRet, input |-> NoInput]

(***************************************************************************)
(* convertError on its own: the values of its argument type                *)
(***************************************************************************)
\* the errors an openapi3.MultiError can hold: the four shapes convertError
\* tells apart, a *RequestError that has none of Parameter, nested
\* MultiError and RequestBody, and errors of other types
RawErrors ==
    { SchemaError(<<>>, <<"property ", QUOTE, "extra", QUOTE, " is unsupported">>),
      SchemaError(<<nUsername>>, <<"value must be a string">>),
      RequestError(pUsername, FALSE, <<>>, PlainError(ParamCause(pUsername))),
      RequestError(pLimit, FALSE, <<>>, PlainError(ParamCause(pLimit))),
      RequestError(NoParameter, TRUE, <<>>, ErrInvalidRequired),
      RequestError(NoParameter, TRUE, <<"doesn't match schema">>,
                   MultiError(<<SchemaError(<<nUsername>>, <<"value must be a string">>)>>)),
      RequestError(NoParameter, TRUE, <<"doesn't match schema">>,
                   MultiError(<<SchemaError(<<nLimit>>, <<"number must be at most 100">>),
                                PlainError(<<"unsupported content">>)>>)),
      RequestError(NoParameter, FALSE, <<"invalid route">>, NilError),
      RequestError(NoParameter, FALSE, <<>>, PlainError(<<"security requirements failed">>)),
      PlainError(<<"security requirements failed">>),
      PlainError(<<"context canceled">>) }

RawMultiErrors == UNION { [1..n -> RawErrors] : n \in 1..MaxRawErrs }

NoConversion == [me |-> <<>>, issues |-> <<>>, errs |-> <<>>, done |-> FALSE]

(***************************************************************************)
(* The state machine                                                       *)
(***************************************************************************)
NoTrace ==
    [bypass |-> "", findRoute |-> FALSE, validateRequest |-> FALSE,
     contextSet |-> FALSE, next |-> 0, validateResponse |-> FALSE]

Init ==
    /\ mw = "new"
    /\ config = DefaultConfig
    /\ router = {}
    /\ loads = 0
    /\ pc = "Start"
    /\ req = NoRequest
    /\ store = <<>>
    /\ rawErr = <<>>
    /\ call = NoCall
    /\ resp = NewResponse
    /\ ret = NilRet
    /\ trace = NoTrace
    /\ ctxs = [c \in Contexts |-> IdleContext]
    /\ storage = <<>>
    /\ serial = 0
    /\ conv = NoConversion

\* e.Use(OpenAPIWithConfig(cfg)): the middleware is built, or panics
Construct ==
    /\ mw = "new"
    /\ \E made \in Constructions :
         /\ mw' = IF made.panic # "" THEN "panicked" ELSE "serving"
         /\ config' = made.config
         /\ router' = made.router
         /\ loads' = loads + made.loads
    /\ UNCHANGED <<pc, req, store, rawErr, call, resp, ret, trace, conc, conv>>

\* echo hands a request, with a fresh context, to the middleware
Receive ==
    /\ mw = "serving"
    /\ pc = "Start"
    /\ \E r \in Requests :
         /\ r.skip => config.Skipper = "custom"
         /\ req' = r
    /\ pc' = "SkipCheck"
    /\ loads' = loads + LoadsPerRequest(config)
    /\ UNCHANGED <<mw, config, router, store, rawErr, call, resp, ret, trace, conc, conv>>

\* if config.Skipper(c) { return next(c) }
SkipCheck ==
    /\ pc = "SkipCheck"
    /\ IF Skipper(config, req)
       THEN pc' = "Delegated" /\ trace' = [trace EXCEPT !.bypass = "skip"]
       ELSE pc' = "ExemptionCheck" /\ UNCHANGED trace
    /\ UNCHANGED <<mw, config, router, loads, req, store, rawErr, call, resp, ret, conc, conv>>

\* if check(c.Path(), c.Request().Method, config.ExemptRoutes) { return next(c) }
ExemptionCheck ==
    /\ pc = "ExemptionCheck"
    /\ IF check(req.target.route, req.method, config.ExemptRoutes)
       THEN pc' = "Delegated" /\ trace' = [trace EXCEPT !.bypass = "exempt"]
       ELSE pc' = "RouteResolution" /\ UNCHANGED trace
    /\ UNCHANGED <<mw, config, router, loads, req, store, rawErr, call, resp, ret, conc, conv>>

\* router.FindRoute(c.Request()) and the mapping of its errors
RouteResolution ==
    /\ pc = "RouteResolution"
    /\ LET res == ResolveRoute(router, req)
       IN  /\ pc' = IF res.ok THEN "RequestValidation" ELSE "Returned"
           /\ ret' = res.ret
    /\ trace' = [trace EXCEPT !.findRoute = TRUE]
    /\ UNCHANGED <<mw, config, router, loads, req, store, rawErr, call, resp, conc, conv>>

\* the stage with the "return" of the MultiError case missing: the error
\* response is written and the chain goes on
RequestValidationGoesOn ==
    /\ pc = "RequestValidation"
    /\ LET route == ResolveRoute(router, req).route
           me == ValidateRequest(route, req)
       IN  /\ rawErr' = me
           /\ resp' = IF me = <<>> THEN resp ELSE RejectRequest(resp, me)
           /\ store' = ContextSet(store, config.ContextKey,
                                  RequestValidationInput(req, route))
           /\ trace' = [trace EXCEPT !.validateRequest = TRUE, !.contextSet = TRUE]
           /\ pc' = "Delegated"
    /\ UNCHANGED <<mw, config, router, loads, req, call, ret, conc, conv>>

\* openapi3filter.ValidateRequest, then either the error response or
\* c.Set(config.ContextKey, requestValidationInput)
RequestValidation ==
    /\ pc = "RequestValidation"
    /\ LET route == ResolveRoute(router, req).route
           me == ValidateRequest(route, req)
       IN  /\ rawErr' = me
           /\ IF me = <<>>
              THEN /\ store' = ContextSet(store, config.ContextKey,
                                          RequestValidationInput(req, route))
                   /\ trace' = [trace EXCEPT !.validateRequest = TRUE,
                                             !.contextSet = TRUE]
                   /\ pc' = "Delegated"
                   /\ UNCHANGED resp
              ELSE /\ resp' = RejectRequest(resp, me)
                   /\ trace' = [trace EXCEPT !.validateRequest = TRUE]
                   /\ pc' = "Returned"
                   /\ UNCHANGED store
    /\ UNCHANGED <<mw, config, router, loads, req, call, ret, conc, conv>>

\* return next(c): the downstream handler runs
Delegated ==
    /\ pc = "Delegated"
    /\ \E cl \in Calls :
         LET out == next(cl, store, resp)
         IN  /\ call' = cl
             /\ resp' = out.resp
             /\ ret' = out.ret
             /\ trace' = [trace EXCEPT !.next = @ + 1,
                                       !.validateResponse = out.validated]
    /\ pc' = "Returned"
    /\ UNCHANGED <<mw, config, router, loads, req, store, rawErr, conc, conv>>

\* the chain has returned to echo: an error goes to the HTTP error handler
End ==
    /\ pc = "Returned"
    /\ resp' = IF ret.kind = "nil" THEN resp ELSE DefaultHTTPErrorHandler(resp, ret)
    /\ pc' = "End"
    /\ UNCHANGED <<mw, config, router, loads, req, store, rawErr, call, ret, trace, conc, conv>>

\* the response is out: echo resets the context for the next request
Release ==
    /\ pc = "End"
    /\ pc' = "Start"
    /\ req' = NoRequest
    /\ store' = <<>>
    /\ rawErr' = <<>>
    /\ call' = NoCall
    /\ resp' = NewResponse
    /\ ret' = NilRet
    /\ trace' = NoTrace
    /\ UNCHANGED <<mw, config, router, loads, conc, conv>>

Next ==
    \/ Construct
    \/ Receive
    \/ SkipCheck
    \/ ExemptionCheck
    \/ RouteResolution
    \/ RequestValidation
    \/ Delegated
    \/ End
    \/ Release

Spec == Init /\ [][Next]_vars

(***************************************************************************)
(* Requests served side by side by one middleware instance                 *)
(***************************************************************************)
\* echo takes a context from the pool for a new request and calls the chain
ReceiveOn(c) ==
    /\ mw = "serving"
    /\ ctxs[c].pc = "Start"
    /\ serial < MaxServed
    /\ \E r \in ConcRequests(serial + 1) :
         ctxs' = [ctxs EXCEPT ![c] = [IdleContext EXCEPT !.pc = "SkipCheck", !.req = r]]
    /\ serial' = serial + 1
    /\ loads' = loads + LoadsPerRequest(config)
    /\ UNCHANGED <<mw, config, router, storage, seq, conv>>

SkipCheckOn(c) ==
    /\ ctxs[c].pc = "SkipCheck"
    /\ ctxs' = [ctxs EXCEPT ![c].pc = IF Skipper(config, ctxs[c].req)
                                      THEN "Delegated" ELSE "ExemptionCheck"]
    /\ UNCHANGED <<mw, config, router, loads, storage, serial, seq, conv>>

ExemptionCheckOn(c) ==
    /\ ctxs[c].pc = "ExemptionCheck"
    /\ ctxs' = [ctxs EXCEPT ![c].pc =
                    IF check(ctxs[c].req.target.route, ctxs[c].req.method,
                             config.ExemptRoutes)
                    THEN "Delegated" ELSE "RouteResolution"]
    /\ UNCHANGED <<mw, config, router, loads, storage, serial, seq, conv>>

RouteResolutionOn(c) ==
    /\ ctxs[c].pc = "RouteResolution"
    /\ LET res == ResolveRoute(router, ctxs[c].req)
       IN  ctxs' = [ctxs EXCEPT ![c].pc = IF res.ok THEN "RequestValidation"
                                                    ELSE "Returned",
                                ![c].ret = res.ret]
    /\ UNCHANGED <<mw, config, router, loads, storage, serial, seq, conv>>

RequestValidationOn(c) ==
    /\ ctxs[c].pc = "RequestValidation"
    /\ LET route == ResolveRoute(router, ctxs[c].req).route
           me == ValidateRequest(route, ctxs[c].req)
       IN  IF me = <<>>
           THEN /\ storage' = ContextSet(storage, Slot(c, config.ContextKey),
                                         RequestValidationInput(ctxs[c].req, route))
                /\ ctxs' = [ctxs EXCEPT ![c].pc = "Delegated"]
           ELSE /\ ctxs' = [ctxs EXCEPT ![c].pc = "Returned",
                                        ![c].resp = RejectRequest(@, me)]
                /\ UNCHANGED storage
    /\ UNCHANGED <<mw, config, router, loads, serial, seq, conv>>

DelegatedOn(c) ==
    /\ ctxs[c].pc = "Delegated"
    /\ \E cl \in ConcCalls :
         LET view == StoreView(storage, c)
             out == next(cl, view, ctxs[c].resp)
         IN  ctxs' = [ctxs EXCEPT ![c].pc = "Returned",
                                  ![c].call = cl,
                                  ![c].resp = out.resp,
                                  ![c].ret = out.ret,
                                  ![c].input = ContextGet(view, cl.h.ValidatorKey)]
    /\ UNCHANGED <<mw, config, router, loads, storage, serial, seq, conv>>

EndOn(c) ==
    /\ ctxs[c].pc = "Returned"
    /\ ctxs' = [ctxs EXCEPT ![c].pc = "End",
                            ![c].resp = IF ctxs[c].ret.kind = "nil" THEN @
                                        ELSE DefaultHTTPErrorHandler(@, ctxs[c].ret)]
    /\ UNCHANGED <<mw, config, router, loads, storage, serial, seq, conv>>

\* the context goes back to the pool
ReleaseOn(c) ==
    /\ ctxs[c].pc = "End"
    /\ ctxs' = [ctxs EXCEPT ![c] = IdleContext]
    /\ storage' = ContextReset(storage, c)
    /\ UNCHANGED <<mw, config, router, loads, serial, seq, conv>>

ConcNext ==
    \/ Construct
    \/ \E c \in Contexts :
         \/ ReceiveOn(c)
         \/ SkipCheckOn(c)
         \/ ExemptionCheckOn(c)
         \/ RouteResolutionOn(c)
         \/ RequestValidationOn(c)
         \/ DelegatedOn(c)
         \/ EndOn(c)
         \/ ReleaseOn(c)

ConcSpec == Init /\ [][ConcNext]_vars

(***************************************************************************)
(* convertError called on its own                                          *)
(***************************************************************************)
ConvInit ==
    /\ mw = "new"
    /\ config = DefaultConfig
    /\ router = {}
    /\ loads = 0
    /\ pc = "Start"
    /\ req = NoRequest
    /\ store = <<>>
    /\ rawErr = <<>>
    /\ call = NoCall
    /\ resp = NewResponse
    /\ ret = NilRet
    /\ trace = NoTrace
    /\ ctxs = [c \in Contexts |-> IdleContext]
    /\ storage = <<>>
    /\ serial = 0
    /\ \E me \in RawMultiErrors : conv = [NoConversion EXCEPT !.me = me]

\* issues := convertError(me), then the flattening of the callers
Convert ==
    /\ ~conv.done
    /\ conv' = [conv EXCEPT !.issues = convertError(conv.me),
                            !.errs = FlatErrors(convertError(conv.me)),
                            !.done = TRUE]
    /\ UNCHANGED <<mw, config, router, loads, seq, conc>>

ConvNext == Convert

ConvSpec == ConvInit /\ [][ConvNext]_vars

(***************************************************************************)
(* Properties                                                              *)
(***************************************************************************)
\* what the schema source of a configuration holds
SourceKind(cfg) ==
    IF Len(cfg.SchemaBytes) > 0 THEN cfg.SchemaBytes[1]
    ELSE IF cfg.Schema = "" THEN "none"
    ELSE FileKind(cfg.Schema)

\* the set-up mistakes: no source, unparsable (or unreadable), invalid
\* document, no route matcher
BadSource(cfg) ==
    SourceKind(cfg) \in {"none", "missing", "unparsable", "invalid", "unroutable"}

\* C1: construction fails (the middleware panics and nothing is ever served)
\* exactly for the configurations with no schema source, an unparsable or
\* invalid document, or a document no router can be built from; the schema
\* is loaded once, at construction, and never while a request is handled.
C1_SetupErrorsAreFatal ==
    /\ mw # "new" => (BadSource(config) <=> mw = "panicked")
    /\ mw = "panicked" =>
         /\ pc = "Start" /\ req = NoRequest /\ resp = NewResponse
         /\ router = {}
    /\ mw = "serving" => loads = 1
    /\ pc # "Start" => mw = "serving"

C1_Witness ==
    /\ mw = "panicked"
    /\ SourceKind(config) = "invalid"

\* the request's path matches no operation of the document
PathNotFound(r) == ~\E op \in Operations : Match(op.path, r.target.url)

\* some operation has the request's path, none of them its method
MethodNotAllowed(r) ==
    /\ \E op \in Operations : Match(op.path, r.target.url)
    /\ ~\E op \in Operations : Match(op.path, r.target.url) /\ op.method = r.method

\* the response is the one JSON document {"message": message}
AnswersWithMessage(status, message) ==
    /\ resp.committed
    /\ resp.status = status
    /\ resp.body = <<JSONBody(message, <<>>)>>

\* C2: a request that is neither skipped nor exempt ends with 404
\* "Path not found" when no path pattern matches, and with 405
\* "Method not allowed" when a pattern matches but not for its method; the
\* body is the message alone.
C2_ResolutionErrors ==
    (pc = "End" /\ trace.bypass = "") =>
        /\ PathNotFound(req) => AnswersWithMessage(404, <<"Path not found">>)
        /\ MethodNotAllowed(req) => AnswersWithMessage(405, <<"Method not allowed">>)

C2_Witness ==
    /\ pc = "End" /\ trace.bypass = ""
    /\ MethodNotAllowed(req)
    /\ resp.status = 405
\* the operations that serve the request's path and method
OpsFor(r) ==
    {op \in Operations : Match(op.path, r.target.url) /\ op.method = r.method}

\* the errors list of the one JSON document written
WrittenErrors == IF Len(resp.body) = 1 THEN resp.body[1].errors ELSE <<>>
WrittenMessage == IF Len(resp.body) = 1 THEN resp.body[1].message ELSE <<>>

MissingBodyMessage ==
    <<"request body has an error: ", "value is required but missing">>

\* C3: a validated request with an empty body, sent to an operation whose
\* request body is required, is answered 400 and the errors list holds the
\* message that the request body is required but missing.
C3_MissingBodyIs400 ==
    (/\ pc = "End" /\ trace.bypass = ""
     /\ req.body.kind = "empty"
     /\ \E op \in OpsFor(req) : op.hasBody /\ op.bodyRequired)
    => /\ resp.status = 400
       /\ \E i \in DOMAIN WrittenErrors : WrittenErrors[i] = MissingBodyMessage

C3_Witness ==
    /\ pc = "End" /\ trace.bypass = ""
    /\ req.body.kind = "empty"
    /\ req.badParams # {}
    /\ resp.status = 400
    /\ WrittenErrors = <<MissingBodyMessage>>

\* the request body is missing or cannot be decoded
BodyMissingOrMalformed(r) == r.body.kind \in {"empty", "malformed"}

\* C4 (as claimed): every request-validation failure other than a missing or
\* malformed body is answered 422 "Validation error", whatever fields are
\* at fault; 400 is answered only when the body is missing or malformed.
C4_OnlyBodyFailuresAre400 ==
    (pc = "End" /\ trace.validateRequest /\ rawErr # <<>>) =>
        /\ ~BodyMissingOrMalformed(req) =>
             resp.status = 422 /\ WrittenMessage = <<"Validation error">>
        /\ resp.status = 400 => BodyMissingOrMalformed(req)

\* the Skipper says skip; the (route path, method) pair is in the table
SkipperSaysSkip == config.Skipper = "custom" /\ req.skip
ExemptPair ==
    /\ req.target.route \in DOMAIN config.ExemptRoutes
    /\ req.method \in { config.ExemptRoutes[req.target.route][i] :
                          i \in DOMAIN config.ExemptRoutes[req.target.route] }

\* the request would be turned away if it were resolved and validated
WouldBeRejected(r) ==
    \/ OpsFor(r) = {}
    \/ \E op \in OpsFor(r) : ValidateRequest(op, r) # <<>>

\* C5: when the Skipper returns true, or the (route path, method) pair is in
\* the exemption table, the next handler is invoked with no route resolution
\* and no request validation before it, whatever the request holds; a
\* request is let through as exempt only if its route path is a key of the
\* table and its method is listed under that key.
C5_BypassGoesStraightToNext ==
    /\ (pc # "Start" /\ pc # "SkipCheck" /\ SkipperSaysSkip) =>
          /\ trace.bypass = "skip"
          /\ pc \in {"Delegated", "Returned", "End"}
    /\ (pc \notin {"Start", "SkipCheck", "ExemptionCheck"}
          /\ ~SkipperSaysSkip /\ ExemptPair) =>
          /\ trace.bypass = "exempt"
          /\ pc \in {"Delegated", "Returned", "End"}
    /\ trace.bypass # "" =>
          /\ ~trace.findRoute /\ ~trace.validateRequest /\ ~trace.contextSet
          /\ pc \in {"Returned", "End"} => trace.next = 1
    /\ trace.bypass = "exempt" => ExemptPair

C5_Witness ==
    /\ pc = "End"
    /\ trace.bypass = "exempt"
    /\ trace.next = 1
    /\ WouldBeRejected(req)
    /\ req.body.kind = "malformed"
\* the downstream handler handed a response candidate to a Handler
ValidateCall == call.fn \in {"Validate", "ValidateWithContentType"}

\* the Handler finds the validation context of the request
ContextFound == ValidateCall /\ call.h.ValidatorKey \in DOMAIN store

\* the operation the request was validated against
MatchedOperation == store[call.h.ValidatorKey].route

\* the Content-Type the candidate is validated under
CandidateContentType ==
    LET ct == IF call.fn = "Validate" THEN call.h.ContentType ELSE call.contentType
    IN  IF HasPrefix(ct, ApplicationJSON) THEN ct ELSE MIMETextPlain

\* the candidate's body breaks the schema the operation declares for its
\* status and content type (and body validation is not switched off)
BodyViolatesSchema ==
    /\ ContextFound
    /\ call.code # StatusNoContent
    /\ ~call.h.ExcludeResponseBody
    /\ call.code \in DOMAIN MatchedOperation.responses
    /\ \E ct \in MatchedOperation.responses[call.code] :
            HasPrefix(CandidateContentType, ct)
    /\ ~MarshalFails(call.v)
    /\ call.v.fit # "ok"

CandidateWritten == \E i \in DOMAIN resp.body : resp.body[i].kind = "blob"

\* C6 (as claimed): a candidate whose body violates the declared response
\* schema is never written: Validate returns an error, the client sees 500
\* and only the generic message.
C6_InvalidBodyNeverWritten ==
    (pc = "End" /\ BodyViolatesSchema) =>
        /\ ret.kind = "error"
        /\ ~CandidateWritten
        /\ resp.status = 500
        /\ resp.body = <<JSONBody(<<"Internal Server Error">>, <<>>)>>

\* C7 (as claimed): with IncludeResponseStatus set, a status other than 204
\* that the matched operation does not declare makes Validate return an
\* error, and the response is not written.
C7_UndeclaredStatusFails ==
    (/\ pc = "End" /\ ContextFound
     /\ call.h.IncludeResponseStatus
     /\ call.code # StatusNoContent
     /\ call.code \notin DOMAIN MatchedOperation.responses)
    => /\ ret.kind = "error"
       /\ ~CandidateWritten

\* C8: a Validate / ValidateWithContentType call with status 204 answers an
\* empty 204 at once and runs no response validation, whatever the handler
\* configuration and the payload, with or without a validation context.
C8_NoContentShortCut ==
    (pc \in {"Returned", "End"} /\ ValidateCall /\ call.code = StatusNoContent) =>
        /\ ~trace.validateResponse
        /\ ret = NilRet
        /\ resp.committed /\ resp.status = StatusNoContent
        /\ resp.body = <<>>
        /\ resp.writes = 1

C8_Witness ==
    /\ pc = "End" /\ call.fn = "Validate" /\ call.code = StatusNoContent
    /\ store = <<>>
    /\ call.v.fit = "fields"
    /\ call.h.ValidatorKey = "other"
    /\ resp.status = StatusNoContent

\* the raw errors in the order the converter meets them, nested lists opened
RECURSIVE Leaves(_)
Leaves(me) ==
    IF me = <<>> THEN <<>>
    ELSE LET e == Head(me)
         IN  (IF e.type = "RequestError" /\ e.parameter = NoParameter
                  /\ e.err.type = "MultiError"
              THEN Leaves(e.err.errs) ELSE <<e>>) \o Leaves(Tail(me))

\* the key section 4.4 of the specification gives a raw error
KeyOfLeaf(e) ==
    CASE e.type = "SchemaError" -> Join(e.pointer, <<".">>)
      [] e.type = "RequestError" /\ e.parameter # NoParameter ->
             e.parameter.in \o <<".">> \o e.parameter.name
      [] e.type = "RequestError" /\ e.requestBody -> kBody
      [] OTHER -> kUnknown

\* the raw errors of one key, in discovery order
RECURSIVE LeavesOfKey(_, _)
LeavesOfKey(leaves, k) ==
    IF leaves = <<>> THEN <<>>
    ELSE (IF KeyOfLeaf(Head(leaves)) = k THEN <<Head(leaves)>> ELSE <<>>)
         \o LeavesOfKey(Tail(leaves), k)

\* two discovery orders that agree on the order of the errors of each key
SameOrderWithinKeys(p, q) ==
    \A k \in {KeyOfLeaf(Leaves(p)[i]) : i \in DOMAIN Leaves(p)} :
        LeavesOfKey(Leaves(p), k) = LeavesOfKey(Leaves(q), k)

\* the longest nested list of a MultiError
NestedLen(me) ==
    LET lens == {0} \union { Len(me[i].err.errs) :
                    i \in {j \in DOMAIN me : me[j].type = "RequestError"
                                             /\ me[j].err.type = "MultiError"} }
    IN  CHOOSE n \in lens : \A m \in lens : m <= n

\* me met in another order: f permutes the list, g the nested lists
Reordered(me, f, g) ==
    [i \in DOMAIN me |->
        LET e == me[f[i]]
        IN  IF e.type = "RequestError" /\ e.err.type = "MultiError"
               /\ Len(e.err.errs) = NestedLen(me)
            THEN [e EXCEPT !.err.errs = [j \in DOMAIN @ |-> @[g[j]]]]
            ELSE e]

\* C9 (as claimed): the errors list of a 422 is the same for every discovery
\* order of the same raw errors, also when several errors share a key.
C9_AnyOrderSameList ==
    (pc = "End" /\ resp.status = 422 /\ rawErr # <<>>) =>
        \A f \in Permutations(DOMAIN rawErr) :
            \A g \in Permutations(1..NestedLen(rawErr)) :
                FlatErrors(convertError(Reordered(rawErr, f, g))) = WrittenErrors

\* C9 (what the converter does guarantee): the errors list of a 422 is the
\* same for every discovery order of the same raw errors that keeps the order
\* of the errors of each key: keys come sorted, and the messages of one key
\* in discovery order.
C9_OrderWithinKeysOnly ==
    (pc = "End" /\ resp.status = 422 /\ rawErr # <<>>) =>
        \A f \in Permutations(DOMAIN rawErr) :
            \A g \in Permutations(1..NestedLen(rawErr)) :
                SameOrderWithinKeys(Reordered(rawErr, f, g), rawErr) =>
                    FlatErrors(convertError(Reordered(rawErr, f, g))) = WrittenErrors

\* raw errors of several keys, met in an order that is not the key order
C9_Witness ==
    /\ pc = "End" /\ resp.status = 422
    /\ Len(rawErr) = 3
    /\ Len(WrittenErrors) = 4
    /\ \E i \in DOMAIN Leaves(rawErr) :
           i > 1 /\ StringLess(KeyOfLeaf(Leaves(rawErr)[i]),
                               KeyOfLeaf(Leaves(rawErr)[i - 1]))

\* C10: every pipeline execution ends with exactly one response written.
C10_ExactlyOneResponse ==
    pc = "End" =>
        /\ resp.committed
        /\ resp.writes = 1
        /\ Len(resp.body) <= 1

C10_Witness ==
    /\ pc = "End"
    /\ ValidateCall /\ trace.validateResponse
    /\ ret.kind = "error"
    /\ resp.writes = 1 /\ resp.status = 500

\* every value in the store of a context was put there for the request that
\* context is serving, and so is the input Validate has read
ReadsOwnContext ==
    \A c \in Contexts :
        /\ \A k \in DOMAIN StoreView(storage, c) :
               StoreView(storage, c)[k].request = ctxs[c].req
        /\ ctxs[c].input # NoInput => ctxs[c].input.request = ctxs[c].req

\* a step taken while the middleware serves leaves what the closure captured
SharedUntouched ==
    mw = "serving" => UNCHANGED <<mw, config, router, loads>>

\* C11: under every interleaving of requests served side by side by one
\* middleware instance, the validation context Handler.Validate reads for a
\* request is the one the middleware stored for that same request, and no
\* step of request handling changes the schema, the route matcher, the
\* configuration or the exemption table.
C11_ContextIsPerRequest == []ReadsOwnContext /\ [][SharedUntouched]_vars

\* two requests in flight at once: one has had its input read by Validate
\* while the other, accepted later, has its own input stored and not yet read
C11_Witness ==
    \E c, d \in Contexts :
        /\ c # d
        /\ ctxs[c].pc = "Returned" /\ ctxs[c].input # NoInput
        /\ ctxs[c].resp.writes = 1 /\ ctxs[c].ret = NilRet
        /\ ctxs[d].pc = "Delegated"
        /\ Slot(d, config.ContextKey) \in DOMAIN storage
        /\ ctxs[d].req.id > ctxs[c].req.id
        /\ ctxs[d].req.method = ctxs[c].req.method
        /\ ctxs[d].req.target = ctxs[c].req.target

\* the zero value of HandlerConfig: HandlerConfig{}
ZeroHandlerConfig ==
    [ContentType |-> <<>>, ValidatorKey |-> "",
     ExcludeRequestBody |-> FALSE, ExcludeResponseBody |-> FALSE,
     IncludeResponseStatus |-> FALSE]

HandlerFields ==
    {"ContentType", "ValidatorKey", "ExcludeRequestBody", "ExcludeResponseBody",
     "IncludeResponseStatus"}

\* C12: the Handler a Validate call runs on, built by NewHandler or by
\* NewHandlerWithConfig, holds the documented default in every field that the
\* configuration it was built from left at its zero value: content type
\* "application/json", validator key "validator", no body excluded, and
\* include-response-status true.
C12_UnsetFieldsGetDefaults ==
    ValidateCall =>
        \A f \in HandlerFields :
            (call.ctor = "NewHandler" \/ call.hc[f] = ZeroHandlerConfig[f])
                => call.h[f] = DefaultHandlerConfig[f]

\* the raw errors that carry a parameter
ParameterErrors(me) ==
    { me[i] : i \in { j \in DOMAIN me : me[j].type = "RequestError"
                                        /\ me[j].parameter # NoParameter } }

\* line is the text of cause up to its first line feed
IsFirstLineOf(line, cause) ==
    \E n \in 0..Len(cause) :
        /\ line = SubSeq(cause, 1, n)
        /\ \A i \in 1..n : cause[i] # LF
        /\ n = Len(cause) \/ cause[n + 1] = LF

\* the lines of a text that follow its first line feed
RECURSIVE LaterLines(_)
LaterLines(cause) ==
    IF \A i \in DOMAIN cause : cause[i] # LF THEN {}
    ELSE LET n == CHOOSE i \in DOMAIN cause :
                      cause[i] = LF /\ \A k \in 1..(i - 1) : cause[k] # LF
             rest == SubSeq(cause, n + 1, Len(cause))
         IN  {FirstLine(rest)} \union LaterLines(rest)

\* the text m holds the text part
ContainsText(m, part) ==
    \E i \in 1..(Len(m) - Len(part) + 1) : SubSeq(m, i, i + Len(part) - 1) = part

\* m is "parameter '<name>' in <location> has an error: <first line of the cause>"
IsParameterMessage(m, e) ==
    LET head == <<"parameter '">> \o e.parameter.name \o <<"' in ">>
                \o e.parameter.in \o <<" has an error: ">>
    IN  /\ HasPrefix(m, head)
        /\ IsFirstLineOf(SubSeq(m, Len(head) + 1, Len(m)), ErrorText(e.err))

\* C13: every parameter error among the raw errors is filed under
\* "<location>.<name>" with the message "parameter '<name>' in <location> has
\* an error: <cause>", <cause> being the first line of the cause's text only;
\* a 422 carries that message, and no later line of a cause is ever in the
\* errors list sent to the client.
C13_ParameterMessageFirstLine ==
    (pc = "End" /\ rawErr # <<>>) =>
        \A e \in ParameterErrors(rawErr) :
            LET issues == convertError(rawErr)
                key == e.parameter.in \o <<".">> \o e.parameter.name
            IN  /\ key \in DOMAIN issues
                /\ Len(issues[key]) = 1
                /\ IsParameterMessage(issues[key][1], e)
                /\ resp.status = 422 => \E i \in DOMAIN WrittenErrors :
                                            WrittenErrors[i] = issues[key][1]
                /\ \A i \in DOMAIN WrittenErrors :
                       /\ \A k \in DOMAIN WrittenErrors[i] : WrittenErrors[i][k] # LF
                       /\ \A line \in LaterLines(ErrorText(e.err)) :
                              ~ContainsText(WrittenErrors[i], line)

\* a 422 for a request with two bad parameters, both with multi-line causes
C13_Witness ==
    /\ pc = "End" /\ resp.status = 422
    /\ Cardinality(ParameterErrors(rawErr)) = 2
    /\ \A e \in ParameterErrors(rawErr) : LaterLines(ErrorText(e.err)) # {}
    /\ Len(WrittenErrors) = 2

\* the segments of a JSON pointer with a "." between them
RECURSIVE DotJoined(_)
DotJoined(path) ==
    IF path = <<>> THEN <<>>
    ELSE IF Len(path) = 1 THEN path[1]
    ELSE DotJoined(SubSeq(path, 1, Len(path) - 1)) \o <<".">> \o path[Len(path)]

\* the text with a single quote wherever it has a double quote
RECURSIVE SingleQuoted(_)
SingleQuoted(text) ==
    IF text = <<>> THEN <<>>
    ELSE <<IF Head(text) = QUOTE THEN "'" ELSE Head(text)>> \o SingleQuoted(Tail(text))

\* the schema-level errors among the raw errors
SchemaErrors(me) ==
    { Leaves(me)[i] : i \in { j \in DOMAIN Leaves(me) :
                                 Leaves(me)[j].type = "SchemaError" } }

\* C14 (as claimed): every schema-level field error among the raw errors is
\* filed under its dot-joined JSON pointer (the empty key at the root) with
\* the message "<field>: <reason>", or "<reason>" alone at the root, the
\* double quotes of the reason replaced by single quotes.
C14_SchemaErrorKeyAndMessage ==
    (pc = "End" /\ rawErr # <<>>) =>
        \A e \in SchemaErrors(rawErr) :
            LET issues == convertError(rawErr)
                field == DotJoined(e.pointer)
                msg == IF field = <<>> THEN SingleQuoted(e.reason)
                       ELSE field \o <<": ">> \o SingleQuoted(e.reason)
            IN  /\ field \in DOMAIN issues
                /\ \E i \in DOMAIN issues[field] : issues[field][i] = msg

\* C14 (amended): every schema-level field error among the raw errors is
\* filed under its dot-joined JSON pointer (the empty key at the root) with
\* the message "<field>: <reason>", or "<reason>" alone at the root, the
\* double quotes of the whole message, those of the field included, replaced
\* by single quotes; the key keeps the pointer as it is.
C14_WholeMessageSingleQuoted ==
    (pc = "End" /\ rawErr # <<>>) =>
        \A e \in SchemaErrors(rawErr) :
            LET issues == convertError(rawErr)
                field == DotJoined(e.pointer)
                msg == IF field = <<>> THEN SingleQuoted(e.reason)
                       ELSE SingleQuoted(field \o <<": ">> \o e.reason)
            IN  /\ field \in DOMAIN issues
                /\ \E i \in DOMAIN issues[field] : issues[field][i] = msg
                /\ resp.status = 422 =>
                       \E i \in DOMAIN WrittenErrors : WrittenErrors[i] = msg

\* a 422 for a body with an error at the root whose reason holds double
\* quotes and an error at a property of a nested object
C14_Witness ==
    /\ pc = "End" /\ resp.status = 422
    /\ \E e \in SchemaErrors(rawErr) :
           e.pointer = <<>> /\ \E i \in DOMAIN e.reason : e.reason[i] = QUOTE
    /\ \E e \in SchemaErrors(rawErr) : Len(e.pointer) = 2
    /\ Len(WrittenErrors) = 2

\* the content type the call asks for
RequestedContentType ==
    IF call.fn = "Validate" THEN call.h.ContentType ELSE call.contentType

\* the payload cannot be turned into bytes for that content type: JSON of a
\* channel, or plain text of something that is neither a string nor bytes
Unserializable ==
    /\ ValidateCall
    /\ IF HasPrefix(RequestedContentType, ApplicationJSON)
       THEN call.v.type = "chan"
       ELSE call.v.type \notin {"string", "bytes"}

\* the call returned an error and wrote nothing
FailedWithoutBody ==
    /\ ret.kind = "error"
    /\ ~CandidateWritten
    /\ pc = "Returned" => (resp.body = <<>> /\ ~resp.committed)

\* a text candidate that was sent went out as text/plain
TextSentAsTextPlain ==
    (/\ ValidateCall
     /\ ~HasPrefix(RequestedContentType, ApplicationJSON)
     /\ call.v.type \in {"string", "bytes"}
     /\ CandidateWritten) => resp.contentType = MIMETextPlain

\* C15 (as claimed): whenever the payload given to Validate or
\* ValidateWithContentType cannot be serialized for the requested content
\* type, the call returns an error and writes no body; a string or bytes
\* payload of a non-JSON content type that is sent goes out as text/plain.
C15_SerializationErrorsSurface ==
    pc \in {"Returned", "End"} =>
        /\ Unserializable => FailedWithoutBody
        /\ TextSentAsTextPlain

\* C15 (amended): the same, for every status code but 204, for which
\* validate answers before it looks at the payload.
C15_SurfaceUnlessNoContent ==
    pc \in {"Returned", "End"} =>
        /\ (Unserializable /\ call.code # StatusNoContent) => FailedWithoutBody
        /\ TextSentAsTextPlain

\* a validated request whose handler gave Validate a payload that cannot be
\* serialized: the client got the 500 of the error handler
C15_Witness ==
    /\ pc = "End"
    /\ Unserializable /\ call.code # StatusNoContent /\ ContextFound
    /\ trace.contextSet
    /\ ret.kind = "error" /\ resp.status = 500 /\ resp.writes = 1

\* the stage at which the pipeline of the request in flight failed, if any
RouteResolutionFailed ==
    trace.findRoute /\ (PathNotFound(req) \/ MethodNotAllowed(req))

RequestValidationFailed == trace.validateRequest /\ rawErr # <<>>

\* C16: once route resolution or request validation has failed for a request,
\* the next handler is never invoked for it: the pipeline is at its return or
\* at its end, nothing was stored for a handler, and what the client gets is
\* the error response of the failing stage, written once.
C16_FailureNeverReachesNext ==
    (RouteResolutionFailed \/ RequestValidationFailed) =>
        /\ pc \in {"Returned", "End"}
        /\ trace.next = 0 /\ call = NoCall
        /\ ~trace.contextSet /\ store = <<>>
        /\ RouteResolutionFailed => ~trace.validateRequest
        /\ pc = "End" =>
              /\ resp.writes = 1
              /\ resp.status \in (IF RouteResolutionFailed THEN {404, 405}
                                                           ELSE {400, 422})

\* a request rejected by request validation, at the end of its pipeline
C16_Witness ==
    /\ pc = "End"
    /\ RequestValidationFailed
    /\ resp.status = 422 /\ Len(WrittenErrors) = 2
    /\ trace.next = 0

\* the store holds, if anything, the input of this request under the
\* middleware's key, put there after both stages succeeded
StoredOnlyAfterSuccess ==
    store # <<>> =>
        /\ DOMAIN store = {config.ContextKey}
        /\ store[config.ContextKey].request = req
        /\ trace.bypass = ""
        /\ trace.findRoute /\ ~RouteResolutionFailed
        /\ trace.validateRequest /\ rawErr = <<>>

\* a request that reaches next without a bypass has its input stored
StoredBeforeNext ==
    ((pc = "Delegated" \/ trace.next > 0) /\ trace.bypass = "") =>
        config.ContextKey \in DOMAIN store

\* a candidate Validate has written belongs to a request validated before
WrittenOnlyIfValidated ==
    (ValidateCall /\ CandidateWritten) =>
        /\ call.code # StatusNoContent
        /\ trace.bypass = "" /\ trace.validateRequest /\ rawErr = <<>>
        /\ call.h.ValidatorKey = config.ContextKey

\* C17 (as claimed): the validation context is stored under the middleware's
\* key only after route resolution and request validation both succeeded,
\* and before next is invoked; a non-204 response written by Validate
\* belongs to a request validated before; and when nothing is stored under
\* the handler's key (bypass, or differing keys) Validate returns an error
\* and writes no body.
C17_ContextOnlyAfterValidation ==
    /\ StoredOnlyAfterSuccess
    /\ StoredBeforeNext
    /\ WrittenOnlyIfValidated
    /\ (pc \in {"Returned", "End"} /\ ValidateCall /\ ~ContextFound)
          => FailedWithoutBody

\* C17 (amended): the same, the last part for every status code but 204,
\* for which Validate answers before it looks for the context.
C17_ContextNeededUnlessNoContent ==
    /\ StoredOnlyAfterSuccess
    /\ StoredBeforeNext
    /\ WrittenOnlyIfValidated
    /\ (/\ pc \in {"Returned", "End"}
        /\ ValidateCall /\ ~ContextFound
        /\ call.code # StatusNoContent) => FailedWithoutBody

\* a validated request whose handler looks under another key than the one
\* the middleware stored under: the 500 of the error handler
C17_Witness ==
    /\ pc = "End"
    /\ config.ContextKey \in DOMAIN store
    /\ ValidateCall /\ call.code = 200
    /\ call.h.ValidatorKey # config.ContextKey
    /\ ret.kind = "error" /\ resp.status = 500

\* the shapes of raw error the converter is said to recognize
RecognizedShape(e) ==
    \/ e.type = "SchemaError"
    \/ /\ e.type = "RequestError"
       /\ \/ e.parameter # NoParameter
          \/ e.err.type = "MultiError"
          \/ e.requestBody

\* err.Error() of a raw error
RawErrorText(e) == IF e.type = "RequestError" THEN RequestErrorText(e) ELSE ErrorText(e)

\* the elements of a raw multi-error, those of nested multi-errors included
RawElements(me) ==
    { me[i] : i \in DOMAIN me }
    \union UNION { { me[i].err.errs[j] : j \in DOMAIN me[i].err.errs } :
                    i \in { k \in DOMAIN me : me[k].type = "RequestError"
                                               /\ me[k].err.type = "MultiError" } }

\* how many messages the mapping holds
RECURSIVE MessageCount(_)
MessageCount(issues) ==
    IF DOMAIN issues = {} THEN 0
    ELSE LET k == CHOOSE x \in DOMAIN issues : TRUE
         IN  Len(issues[k]) + MessageCount([x \in DOMAIN issues \ {k} |-> issues[x]])

\* C18: every element of a raw multi-error that has none of the recognized
\* shapes is filed under "unknown" with its error text, so every raw error
\* adds at least one message to the converter's result and none is dropped.
C18_UnrecognizedGoesToUnknown ==
    conv.done =>
        /\ \A e \in RawElements(conv.me) :
               ~RecognizedShape(e) =>
                   /\ kUnknown \in DOMAIN conv.issues
                   /\ \E i \in DOMAIN conv.issues[kUnknown] :
                          conv.issues[kUnknown][i] = RawErrorText(e)
        /\ MessageCount(conv.issues) >= Len(Leaves(conv.me))
        /\ Len(conv.errs) = MessageCount(conv.issues)

\* C19: when the mapping converted from a failed request validation has the
\* key "body", the answer is a 400 "Request error" whose errors are exactly
\* the messages filed under "body", in the order they are stored there; the
\* messages of every other key are left out.
C19_BodyKeyAnswers400 ==
    (pc \in {"Returned", "End"} /\ RequestValidationFailed
        /\ kBody \in DOMAIN convertError(rawErr)) =>
        LET issues == convertError(rawErr)
        IN  /\ resp.status = 400 /\ resp.writes = 1 /\ ret = NilRet
            /\ WrittenMessage = <<"Request error">>
            /\ WrittenErrors = issues[kBody]
            /\ \A k \in DOMAIN issues \ {kBody} : \A i \in DOMAIN issues[k] :
                   \A j \in DOMAIN WrittenErrors : WrittenErrors[j] # issues[k][i]

\* a request with two bad parameters and no body: three keys in the mapping,
\* one message in the answer
C19_Witness ==
    /\ pc = "End" /\ resp.status = 400
    /\ Cardinality(ParameterErrors(rawErr)) = 2
    /\ Cardinality(DOMAIN convertError(rawErr)) = 3
    /\ Len(WrittenErrors) = 1

====
